---- MODULE Spec2Model ----
(***************************************************************************)
(* Model of the Notion webhook agent in src/main.py.                       *)
(*                                                                         *)
(* Text is a sequence of one-character strings.  A fixed literal that no   *)
(* string test of the program looks inside ("block_id:", an id, a name)    *)
(* is one element of the sequence.  Python's None is the value None.       *)
(***************************************************************************)
EXTENDS Integers, Sequences, FiniteSets, TLC

None == <<"<None>">>

Whitespace == {" ", "\n", "\t"}

\* the backquote character (the module's lexer does not take it in a string)
Backtick == "backquote"

(***************************************************************************)
(* Python string primitives used by the program.                           *)
(***************************************************************************)
RECURSIVE LStripChars(_, _)
LStripChars(s, cs) ==
    IF s # <<>> /\ Head(s) \in cs THEN LStripChars(Tail(s), cs) ELSE s

RECURSIVE RStripChars(_, _)
RStripChars(s, cs) ==
    IF s # <<>> /\ s[Len(s)] \in cs
    THEN RStripChars(SubSeq(s, 1, Len(s) - 1), cs)
    ELSE s

Strip(s) == RStripChars(LStripChars(s, Whitespace), Whitespace)

StartsWith(s, p) == Len(s) >= Len(p) /\ SubSeq(s, 1, Len(p)) = p

RECURSIVE Split(_, _)
Split(s, sep) ==
    IF \E i \in 1..Len(s) : s[i] = sep
    THEN LET i == CHOOSE k \in 1..Len(s) :
                      s[k] = sep /\ \A j \in 1..(k - 1) : s[j] # sep
         IN  <<SubSeq(s, 1, i - 1)>> \o Split(SubSeq(s, i + 1, Len(s)), sep)
    ELSE <<s>>

RECURSIVE Join(_, _)
Join(parts, sep) ==
    IF parts = <<>> THEN <<>>
    ELSE IF Len(parts) = 1 THEN parts[1]
    ELSE parts[1] \o <<sep>> \o Join(Tail(parts), sep)

Repeat(c, n) == [i \in 1..n |-> c]

\* f"{x}" of an opaque string: nothing when it is empty
Atom(x) == IF x = "" THEN <<>> ELSE <<x>>

\* int(s) for the decimal strings the model uses; anything else raises ValueError
IntDigits == <<"1", "2", "3", "4", "5", "6", "7", "8", "9">>
IsInt(tok) == tok = "0" \/ \E n \in 1..Len(IntDigits) : IntDigits[n] = tok
IntOf(tok) == IF tok = "0" THEN 0 ELSE CHOOSE n \in 1..Len(IntDigits) : IntDigits[n] = tok
IntStr(n) == IF n = 0 THEN "0" ELSE IF n \in 1..Len(IntDigits) THEN IntDigits[n] ELSE "10+"

(***************************************************************************)
(* _extract_rich_text                                                      *)
(***************************************************************************)
\* the inline styles applied in the opposite order: code first, bold last
FormatSpanBoldLast(text_obj) ==
    LET c0 == text_obj.plain_text
        c1 == IF text_obj.code THEN <<Backtick>> \o c0 \o <<Backtick>> ELSE c0
        c2 == IF text_obj.strikethrough THEN <<"~", "~">> \o c1 \o <<"~", "~">> ELSE c1
        c3 == IF text_obj.italic THEN <<"*">> \o c2 \o <<"*">> ELSE c2
        c4 == IF text_obj.bold THEN <<"*", "*">> \o c3 \o <<"*", "*">> ELSE c3
    IN  IF text_obj.href # None /\ text_obj.href # <<>>
        THEN <<"[">> \o c4 \o <<"]", "(">> \o text_obj.href \o <<")">>
        ELSE c4

FormatSpan(text_obj) ==
    LET c0 == text_obj.plain_text
        c1 == IF text_obj.bold THEN <<"*", "*">> \o c0 \o <<"*", "*">> ELSE c0
        c2 == IF text_obj.italic THEN <<"*">> \o c1 \o <<"*">> ELSE c1
        c3 == IF text_obj.strikethrough THEN <<"~", "~">> \o c2 \o <<"~", "~">> ELSE c2
        c4 == IF text_obj.code THEN <<Backtick>> \o c3 \o <<Backtick>> ELSE c3
    IN  IF text_obj.href # None /\ text_obj.href # <<>>
        THEN <<"[">> \o c4 \o <<"]", "(">> \o text_obj.href \o <<")">>
        ELSE c4

RECURSIVE _extract_rich_text(_)
_extract_rich_text(rich_text) ==
    IF rich_text = <<>> THEN <<>>
    ELSE FormatSpan(Head(rich_text)) \o _extract_rich_text(Tail(rich_text))

\* an unstyled span
PlainSpan(t) ==
    [plain_text |-> t, bold |-> FALSE, italic |-> FALSE,
     strikethrough |-> FALSE, code |-> FALSE, href |-> None]

(***************************************************************************)
(* markdown_to_notion.  A parsed block is [type, content, language]; type  *)
(* is block_type.split('_').                                               *)
(***************************************************************************)
Fence == <<Backtick, Backtick, Backtick>>

NumberedPrefix(line) ==
    Len(line) >= 3 /\ (\E n \in 1..Len(IntDigits) : line[1] = IntDigits[n])
                   /\ line[2] = "." /\ line[3] = " "

NewBlock(type, content, language) ==
    [type |-> type, content |-> content, language |-> language]

\* the index of the line closing the fence opened before line i
RECURSIVE FenceEnd(_, _)
FenceEnd(lines, i) ==
    IF i <= Len(lines) /\ ~StartsWith(Strip(lines[i]), Fence)
    THEN FenceEnd(lines, i + 1)
    ELSE i

\* line 472
HeadingLevelOne(line) == 1
HeadingLevel(line) == Len(line) - Len(LStripChars(line, {"#"}))

ParseLine(line) ==
    IF StartsWith(line, <<"#">>)
    THEN NewBlock(<<"heading", IntStr(HeadingLevel(line))>>,
                  Strip(LStripChars(line, {"#", " "})), None)
    ELSE IF StartsWith(line, <<"-", " ">>)
    THEN NewBlock(<<"bulleted", "list", "item">>, Strip(SubSeq(line, 3, Len(line))), None)
    ELSE IF NumberedPrefix(line)
    THEN NewBlock(<<"numbered", "list", "item">>, Strip(SubSeq(line, 4, Len(line))), None)
    ELSE IF StartsWith(line, <<">", " ">>)
    THEN NewBlock(<<"quote">>, Strip(SubSeq(line, 3, Len(line))), None)
    ELSE NewBlock(<<"paragraph">>, line, None)

RECURSIVE ParseLines(_, _, _)
ParseLines(lines, i, blocks) ==
    IF i > Len(lines) THEN blocks
    ELSE LET line == Strip(lines[i]) IN
         IF line = <<>> THEN ParseLines(lines, i + 1, blocks)
         ELSE IF ~StartsWith(line, <<"#">>) /\ StartsWith(line, Fence)
         THEN LET end == FenceEnd(lines, i + 1)
                  code_lines == SubSeq(lines, i + 1, end - 1)
              IN  ParseLines(lines, end + 1,
                      Append(blocks, NewBlock(<<"code">>, Join(code_lines, "\n"),
                                              Strip(SubSeq(line, 4, Len(line))))))
         ELSE ParseLines(lines, i + 1, Append(blocks, ParseLine(line)))

markdown_to_notion(markdown) == ParseLines(Split(markdown, "\n"), 1, <<>>)

(***************************************************************************)
(* Requests to the two remote services.  Every request the program issues  *)
(* is one record; the fields a request does not use keep their defaults.   *)
(***************************************************************************)
NoCursor == 0

Request(op, target) ==
    [op |-> op, target |-> target, cursor |-> NoCursor, rich_text |-> <<>>,
     display_name |-> None, messages |-> <<>>, tools |-> FALSE]

\* `if start_cursor:` adds the cursor to the URL only when it is set
ListRequest(op, target, start_cursor) ==
    [Request(op, target) EXCEPT !.cursor = start_cursor]

\* The store answers a list request from its pages: the first page when the
\* request carries no cursor, otherwise the page the cursor names.
PageAt(pages, request) ==
    pages[IF request.cursor # NoCursor THEN request.cursor ELSE 1]

(***************************************************************************)
(* get_block_comments: the pagination loop over one block's comments.      *)
(* A response is [error, code, results, has_more, next_cursor] with error  *)
(* "none", "http" (urllib.error.HTTPError with that code) or "transport".  *)
(***************************************************************************)
CommentsOnError(e_code, comments, requests) ==
    IF e_code = 404 \/ e_code = 403
    THEN [raised |-> FALSE, comments |-> comments, requests |-> requests]
    ELSE [raised |-> TRUE, comments |-> <<>>, requests |-> requests]

RECURSIVE BlockCommentsLoop(_, _, _, _, _)
BlockCommentsLoop(block_id, pages, start_cursor, comments, requests) ==
    LET req == ListRequest("list_comments", block_id, start_cursor)
        data == PageAt(pages, req)
        reqs == Append(requests, req)
    IN  IF data.error = "none"
        THEN IF data.has_more
             THEN BlockCommentsLoop(block_id, pages, data.next_cursor,
                                    comments \o data.results, reqs)
             ELSE [raised |-> FALSE, comments |-> comments \o data.results,
                   requests |-> reqs]
        ELSE IF data.error = "http"
        THEN CommentsOnError(data.code, comments, reqs)
        ELSE [raised |-> TRUE, comments |-> <<>>, requests |-> reqs]

get_block_comments(block_id, store) ==
    BlockCommentsLoop(block_id, store.comments[block_id], NoCursor, <<>>, <<>>)

(***************************************************************************)
(* get_user: the author lookup with its cache (a function on author ids).  *)
(***************************************************************************)
CacheForget(user_cache, user_id, user_info) == user_cache
CachePut(user_cache, user_id, user_info) ==
    [u \in DOMAIN user_cache \cup {user_id} |->
        IF u = user_id THEN user_info ELSE user_cache[u]]

get_user(user_id, store, user_cache) ==
    IF user_id \in DOMAIN user_cache
    THEN [user_info |-> user_cache[user_id], user_cache |-> user_cache,
          requests |-> <<>>]
    ELSE LET user_data == store.users[user_id]
             user_info ==
                 IF user_data.error = "none"
                 THEN [name |-> user_data.name,
                       email |-> IF user_data.type = "person" THEN user_data.email ELSE "",
                       id |-> user_id]
                 ELSE [name |-> "Unknown User", email |-> "", id |-> user_id]
         IN  [user_info |-> user_info,
              user_cache |-> CachePut(user_cache, user_id, user_info),
              requests |-> <<Request("get_user", user_id)>>]

(***************************************************************************)
(* _add_block_comments.  st is what the rendering has built so far:        *)
(* [markdown_lines, user_cache, requests, raised].                         *)
(***************************************************************************)
CommentIdLine(comment_id) == <<"comment block id:", " ">> \o Atom(comment_id)

CommentBy(user_info, user_id, created_time) ==
    <<"*", "*", "Comment by ", "\"">> \o Atom(user_info.name) \o <<"\"">>
        \o (IF user_info.email # "" THEN <<" ", "\"", user_info.email, "\"">> ELSE <<>>)
        \o <<" ", "(">> \o Atom(user_id) \o <<")", " at ">> \o Atom(created_time)
        \o <<":", "*", "*">>

CommentByUnknown(created_time) ==
    <<"*", "*", "Comment by Unknown User at ">> \o Atom(created_time) \o <<":", "*", "*">>

RECURSIVE AppendComments(_, _, _)
AppendComments(st, comments, store) ==
    IF comments = <<>> THEN st
    ELSE LET comment == Head(comments)
             user_id == comment.created_by
             got == get_user(user_id, store, st.user_cache)
             comment_by == IF user_id # ""
                           THEN CommentBy(got.user_info, user_id, comment.created_time)
                           ELSE CommentByUnknown(comment.created_time)
             next == [st EXCEPT
                        !.markdown_lines = @ \o <<CommentIdLine(comment.id), comment_by,
                                                  _extract_rich_text(comment.rich_text)>>,
                        !.user_cache = IF user_id # "" THEN got.user_cache ELSE @,
                        !.requests = IF user_id # "" THEN @ \o got.requests ELSE @]
         IN  AppendComments(next, Tail(comments), store)

_add_block_comments(st, block_id, store) ==
    LET got == get_block_comments(block_id, store)
        asked == [st EXCEPT !.requests = @ \o got.requests]
    IN  IF got.raised THEN [asked EXCEPT !.raised = TRUE]
        ELSE AppendComments(asked, got.comments, store)

(***************************************************************************)
(* notion_to_markdown.  A block is [id, type, has_field, rich_text,        *)
(* language]: type is block_type.split('_'), has_field says whether the    *)
(* block carries the field named after its type.                           *)
(***************************************************************************)
BlockIdLine(block_id) == <<"block_id:", " ">> \o Atom(block_id)

BlockContent(block) ==
    _extract_rich_text(IF block.has_field THEN block.rich_text ELSE <<>>)

SimpleKinds ==
    {<<"paragraph">>, <<"bulleted", "list", "item">>, <<"numbered", "list", "item">>,
     <<"quote">>}

IsHeading(block_type) == Len(block_type) >= 2 /\ block_type[1] = "heading"

\* the lines a block of a supported kind renders to, after its block_id line
BlockBody(block, content) ==
    IF block.type = <<"paragraph">> THEN <<content>>
    ELSE IF IsHeading(block.type)
    THEN <<Repeat("#", IntOf(block.type[2])) \o <<" ">> \o content>>
    ELSE IF block.type = <<"bulleted", "list", "item">> THEN <<<<"-", " ">> \o content>>
    ELSE IF block.type = <<"numbered", "list", "item">> THEN <<<<"1", ".", " ">> \o content>>
    ELSE IF block.type = <<"code">>
    THEN <<Fence \o Atom(IF block.has_field THEN block.language ELSE ""), content, Fence>>
    ELSE <<<<">", " ">> \o content>>

\* a block is rendered when its kind is supported and its text is not blank
RenderedEvenBlank(block) ==
    block.type \in SimpleKinds \cup {<<"code">>} \/ IsHeading(block.type)
Rendered(block) ==
    /\ block.type \in SimpleKinds \cup {<<"code">>} \/ IsHeading(block.type)
    /\ Strip(BlockContent(block)) # <<>>

RenderBlock(st, block, store) ==
    IF IsHeading(block.type) /\ ~IsInt(block.type[2])
    THEN [st EXCEPT !.raised = TRUE]
    ELSE IF ~Rendered(block) THEN st
    ELSE LET begun == [st EXCEPT !.markdown_lines =
                          @ \o <<BlockIdLine(block.id)>> \o BlockBody(block, BlockContent(block))]
             commented == _add_block_comments(begun, block.id, store)
         IN  IF commented.raised THEN commented
             ELSE [commented EXCEPT !.markdown_lines = Append(@, <<>>)]

RECURSIVE RenderBlocks(_, _, _)
RenderBlocks(st, blocks, store) ==
    IF blocks = <<>> \/ st.raised THEN st
    ELSE RenderBlocks(RenderBlock(st, Head(blocks), store), Tail(blocks), store)

\* [raised, markdown, user_cache, requests]
notion_to_markdown(blocks, store, user_cache) ==
    LET st == RenderBlocks([markdown_lines |-> <<>>, user_cache |-> user_cache,
                            requests |-> <<>>, raised |-> FALSE], blocks, store)
    IN  [raised |-> st.raised,
         markdown |-> IF st.raised THEN <<>> ELSE Strip(Join(st.markdown_lines, "\n")),
         user_cache |-> st.user_cache,
         requests |-> st.requests]

(***************************************************************************)
(* extract_page_title.  properties is [has_title, title]: whether a        *)
(* title-typed property exists and the plain_text parts of its array.      *)
(***************************************************************************)
RECURSIVE Concat(_)
Concat(parts) == IF parts = <<>> THEN <<>> ELSE Head(parts) \o Concat(Tail(parts))

extract_page_title(properties) ==
    IF properties.has_title /\ properties.title # <<>>
    THEN Concat(properties.title)
    ELSE <<"Untitled">>

(***************************************************************************)
(* notion_comment.  outcome is what the store does with the request:       *)
(* "ok", "http" or "transport".  [raised, exc, result, requests]           *)
(***************************************************************************)
CommentRequest(block_id, comment_markdown, commenter_name) ==
    [Request("create_comment", block_id) EXCEPT
        !.rich_text = comment_markdown,
        !.display_name = IF commenter_name # <<>> THEN commenter_name ELSE None]

CommentResult(outcome) ==
    IF outcome = "ok"
    THEN [success |-> TRUE, comment_id |-> "new", error |-> ""]
    ELSE IF outcome = "http"
    THEN [success |-> FALSE, comment_id |-> "", error |-> "HTTP error"]
    ELSE [success |-> FALSE, comment_id |-> "", error |-> "transport error"]

NoResult == [success |-> FALSE, comment_id |-> "", error |-> "raised"]

\* markdown that does not get as far as the request: None has no split(),
\* and markdown without a block is refused
CommentRaises(comment_markdown) ==
    IF comment_markdown = None THEN <<"AttributeError">>
    ELSE IF markdown_to_notion(comment_markdown) = <<>>
    THEN <<"Comment markdown could not be converted to Notion blocks">>
    ELSE <<>>

notion_comment(block_id, comment_markdown, commenter_name, notion_token, outcome) ==
    IF ~notion_token
    THEN [raised |-> TRUE, exc |-> <<"NOTION_TOKEN environment variable is required">>,
          result |-> NoResult, requests |-> <<>>]
    ELSE IF CommentRaises(comment_markdown) # <<>>
    THEN [raised |-> TRUE, exc |-> CommentRaises(comment_markdown),
          result |-> NoResult, requests |-> <<>>]
    ELSE [raised |-> FALSE, exc |-> <<>>, result |-> CommentResult(outcome),
          requests |-> <<CommentRequest(block_id, comment_markdown, commenter_name)>>]

(***************************************************************************)
(* State.                                                                  *)
(***************************************************************************)
VARIABLES
    event,            \* the trigger payload
    env,              \* os.environ: client_token, NOTION_TOKEN, OPENAI_API_KEY
    store,            \* the document store: docs, comments, users
    pc,               \* where the request is
    exc,              \* the exception in flight, <<>> when none
    calls,            \* the requests issued to the remote services, in order
    gp,               \* get_page's frame
    page,             \* get_page's return value
    prompt_page,      \* lambda_handler's locals
    changed_page,
    messages,         \* query_openai's locals
    response_message,
    tc,               \* the position of the for loop over tool_calls
    final_response,
    openai_response,
    response,         \* lambda_handler's return value
    blocks,           \* the arguments and results of the conversions
    rendered,
    parsed,
    fetched,
    spans,            \* _extract_rich_text's argument and result
    extracted

vars == <<event, env, store, pc, exc, calls, gp, page, prompt_page, changed_page,
          messages, response_message, tc, final_response, openai_response,
          response, blocks, rendered, parsed, fetched, spans, extracted>>

handlerVars == <<prompt_page, changed_page, messages, response_message, tc,
                 final_response, openai_response, response>>
pureVars == <<blocks, rendered, parsed, fetched, spans, extracted>>

(***************************************************************************)
(* Raising and returning.  An exception in flight sits in exc with         *)
(* pc = "raise" until a handler takes it.                                  *)
(***************************************************************************)
Raise(e) == pc' = "raise" /\ exc' = e

\* query_openai's `except Exception as e: raise Exception(...)`
OpenAIError(e) == <<"OpenAI API error: ">> \o e

ErrorEnvelope(error) == [error |-> error, event |-> event]

Return(envelope) == pc' = "done" /\ response' = envelope

(***************************************************************************)
(* get_page                                                                *)
(***************************************************************************)
NewFrame(page_id, ret) ==
    [page_id |-> page_id, ret |-> ret, page_title |-> <<>>, blocks |-> <<>>,
     start_cursor |-> NoCursor, has_more |-> TRUE, user_cache |-> <<>>]

\* the call get_page(page_id), made from the place ret names
CallGetPage(page_id, ret) == pc' = "get_page" /\ gp' = NewFrame(page_id, ret)

\* lines 89-111: the token, the page metadata and the title
GetPageMeta ==
    /\ pc = "get_page"
    /\ IF ~env.NOTION_TOKEN
       THEN /\ Raise(<<"NOTION_TOKEN environment variable is required">>)
            /\ UNCHANGED <<calls, gp>>
       ELSE /\ calls' = Append(calls, Request("get_page", gp.page_id))
            /\ IF store.docs[gp.page_id].error # "none"
               THEN Raise(<<"HTTPError">>) /\ UNCHANGED gp
               ELSE /\ gp' = [gp EXCEPT !.page_title =
                                 extract_page_title(store.docs[gp.page_id].properties)]
                    /\ pc' = "get_page_loop"
                    /\ UNCHANGED exc
    /\ UNCHANGED <<event, env, store, page, handlerVars, pureVars>>

\* `while has_more` after one more pass of the loop
LoopForever(has_more) == TRUE
LoopAgain(has_more) == has_more

\* lines 118-137: one pass of the pagination loop
GetPageChildren ==
    /\ pc = "get_page_loop"
    /\ LET req == ListRequest("list_children", gp.page_id, gp.start_cursor)
           data == PageAt(store.docs[gp.page_id].pages, req)
       IN
       /\ calls' = Append(calls, req)
       /\ IF data.error # "none"
          THEN Raise(<<"HTTPError">>) /\ UNCHANGED gp
          ELSE /\ gp' = [gp EXCEPT !.blocks = @ \o data.results,
                                   !.has_more = data.has_more,
                                   !.start_cursor = data.next_cursor]
               /\ pc' = IF LoopAgain(data.has_more) THEN "get_page_loop" ELSE "get_page_render"
               /\ UNCHANGED exc
    /\ UNCHANGED <<event, env, store, page, handlerVars, pureVars>>

\* lines 139-145: the rendering and the return to the caller
GetPageRender ==
    /\ pc = "get_page_render"
    /\ LET md == notion_to_markdown(gp.blocks, store, gp.user_cache) IN
       /\ calls' = calls \o md.requests
       /\ gp' = [gp EXCEPT !.user_cache = md.user_cache]
       /\ IF md.raised
          THEN Raise(<<"HTTPError or ValueError">>) /\ UNCHANGED page
          ELSE /\ page' = [page_id |-> gp.page_id, name |-> gp.page_title,
                           markdown |-> md.markdown]
               /\ pc' = gp.ret
               /\ UNCHANGED exc
    /\ UNCHANGED <<event, env, store, handlerVars, pureVars>>

(***************************************************************************)
(* lambda_handler                                                          *)
(***************************************************************************)
\* lines 23-27: the client token is checked only when one is configured
TokenUnchecked(environ, query_params) == TRUE
TokenOk(environ, query_params) ==
    environ.client_token = ""
        \/ (query_params.client_token # ""
            /\ query_params.client_token = environ.client_token)

\* lines 42-44: json.loads(event_body).get('data') and its .get('id')
BodyRaises(body) ==
    IF ~body.parses THEN <<"JSONDecodeError">>
    ELSE IF ~body.has_data THEN <<"AttributeError">>
    ELSE <<>>

\* line 57
Model(query_params) == IF query_params.model = "" THEN "gpt-4o" ELSE query_params.model

\* lines 20-34
LambdaStart ==
    /\ pc = "lambda_handler"
    /\ IF ~TokenOk(env, event.queryStringParameters)
       THEN Return(ErrorEnvelope(<<"Invalid client token">>)) /\ UNCHANGED gp
       ELSE IF event.queryStringParameters.prompt_id = ""
       THEN Return(ErrorEnvelope(<<"Missing prompt_id parameter">>)) /\ UNCHANGED gp
       ELSE CallGetPage(event.queryStringParameters.prompt_id, "read_body")
                /\ UNCHANGED response
    /\ UNCHANGED <<event, env, store, exc, calls, page, prompt_page, changed_page,
                   messages, response_message, tc, final_response, openai_response,
                   pureVars>>

\* lines 34-49: the prompt page is kept and the body is read
LambdaReadBody ==
    /\ pc = "read_body"
    /\ prompt_page' = page
    /\ IF BodyRaises(event.body) # <<>>
       THEN Raise(BodyRaises(event.body)) /\ UNCHANGED <<gp, response>>
       ELSE IF event.body.id = ""
       THEN Return(ErrorEnvelope(<<"Missing page ID in request data">>))
                /\ UNCHANGED <<gp, exc>>
       ELSE CallGetPage(event.body.id, "query_openai") /\ UNCHANGED <<exc, response>>
    /\ UNCHANGED <<event, env, store, calls, page, changed_page, messages,
                   response_message, tc, final_response, openai_response, pureVars>>

\* lines 75-76
LambdaCatchHTTPOnly ==
    /\ pc = "raise"
    /\ exc = <<"HTTPError">>
    /\ Return(ErrorEnvelope(exc))
    /\ UNCHANGED <<event, env, store, exc, calls, gp, page, prompt_page, changed_page,
                   messages, response_message, tc, final_response, openai_response,
                   pureVars>>
LambdaCatch ==
    /\ pc = "raise"
    /\ Return(ErrorEnvelope(exc))
    /\ UNCHANGED <<event, env, store, exc, calls, gp, page, prompt_page, changed_page,
                   messages, response_message, tc, final_response, openai_response,
                   pureVars>>

\* lines 68-73
LambdaResult ==
    /\ pc = "result"
    /\ Return([openai_response |-> openai_response,
               request_id |-> event.body.request_id])
    /\ UNCHANGED <<event, env, store, exc, calls, gp, page, prompt_page, changed_page,
                   messages, response_message, tc, final_response, openai_response,
                   pureVars>>

(***************************************************************************)
(* query_openai.  A reply of the completion service is [error, message];   *)
(* a message is [role, content, tool_calls, tool_call_id, name], a tool    *)
(* call [id, name, arguments] with arguments [valid_json, block_id,        *)
(* comment_markdown]: whether json.loads takes the string, and the two     *)
(* keys .get() reads (None when the key is absent).                        *)
(***************************************************************************)
Message(role, content) ==
    [role |-> role, content |-> content, tool_calls |-> <<>>, tool_call_id |-> 0,
     name |-> ""]

NoMessage == Message("", None)

\* lines 695-700
ToolMessage(tool_call_id, comment_result) ==
    [role |-> "tool", content |-> comment_result, tool_calls |-> <<>>,
     tool_call_id |-> tool_call_id, name |-> "notion_comment"]

CompletionRequest(model, sent, tools) ==
    [Request("chat_completion", model) EXCEPT !.messages = sent, !.tools = tools]

\* line 680: `if response_message.tool_calls:`
WantsTools(message) == message.tool_calls # <<>>

\* line 685
IsAnyFunction(tool_call) == TRUE
IsNotionComment(tool_call) == tool_call.name = "notion_comment"

\* line 707 is the last statement of the tool path: the function returns None
ToolPathReturn(final_message) == None

\* line 711
DirectReturnNothing(message) == None
DirectReturn(message) == message.content

\* the for loop's next position
AfterToolCall == 
    /\ tc' = tc + 1
    /\ pc' = IF tc + 1 > Len(response_message.tool_calls)
             THEN "final_response" ELSE "tool_calls"

\* The replies the completion service may give.  An invocation is named
\* notion_comment or something else, and its arguments are malformed JSON,
\* or carry a body, a blank body or no body; it targets block d1, or d2
\* with another body.
MaxToolCalls == 2

CallKinds == {"other", "malformed", "nice", "elsewhere", "blank", "absent"}

NewToolCall(i, kind) ==
    [id |-> i,
     name |-> IF kind = "other" THEN "search" ELSE "notion_comment",
     arguments |->
        [valid_json |-> kind # "malformed",
         block_id |-> IF kind = "elsewhere" THEN "d2" ELSE "d1",
         comment_markdown |->
            IF kind = "absent" THEN None
            ELSE IF kind = "blank" THEN <<" ">>
            ELSE IF kind = "elsewhere" THEN <<"o", "k">>
            ELSE <<"n", "i", "c", "e">>]]

ToolCallLists ==
    UNION {{[i \in 1..n |-> NewToolCall(i, kinds[i])] : kinds \in [1..n -> CallKinds]} :
           n \in 1..MaxToolCalls}

Reply(content, tool_calls) ==
    [error |-> FALSE,
     message |-> [Message("assistant", content) EXCEPT !.tool_calls = tool_calls]]

FailedReply == [error |-> TRUE, message |-> NoMessage]

FirstReplies ==
    {FailedReply, Reply(<<"O", "K">>, <<>>)} \cup {Reply(None, t) : t \in ToolCallLists}

FinalReplies == {FailedReply, Reply(<<"d", "o", "n", "e">>, <<>>), Reply(<<>>, <<>>)}

\* lines 60-66 and 633-682, 709-711: the call and the initial completion
QueryOpenai ==
    /\ pc = "query_openai"
    /\ changed_page' = page
    /\ IF ~env.OPENAI_API_KEY
       THEN /\ Raise(<<"OPENAI_API_KEY environment variable is required">>)
            /\ UNCHANGED <<calls, messages, response_message, tc, openai_response>>
       ELSE \E reply \in FirstReplies :
            LET sent == <<Message("system", prompt_page.markdown),
                          Message("user", page.markdown)>>
            IN  /\ calls' = Append(calls,
                       CompletionRequest(Model(event.queryStringParameters), sent, TRUE))
                /\ IF reply.error
                   THEN /\ Raise(OpenAIError(<<"APIError">>))
                        /\ UNCHANGED <<messages, response_message, tc, openai_response>>
                   ELSE /\ response_message' = reply.message
                        /\ UNCHANGED exc
                        /\ IF WantsTools(reply.message)
                           THEN /\ messages' = Append(sent, reply.message)
                                /\ tc' = 1
                                /\ pc' = "tool_calls"
                                /\ UNCHANGED openai_response
                           ELSE /\ messages' = sent
                                /\ openai_response' = DirectReturn(reply.message)
                                /\ pc' = "result"
                                /\ UNCHANGED tc
    /\ UNCHANGED <<event, env, store, gp, page, prompt_page, final_response, response,
                   pureVars>>

\* lines 684-700: one pass of the loop over the requested invocations
ToolCall ==
    /\ pc = "tool_calls"
    /\ LET tool_call == response_message.tool_calls[tc]
           function_args == tool_call.arguments
       IN  IF ~IsNotionComment(tool_call)
           THEN AfterToolCall /\ UNCHANGED <<calls, messages, exc>>
           ELSE IF ~function_args.valid_json
           THEN Raise(OpenAIError(<<"JSONDecodeError">>)) /\ UNCHANGED <<calls, messages, tc>>
           ELSE \E outcome \in {"ok", "http", "transport"} :
                LET comment_result ==
                        notion_comment(function_args.block_id, function_args.comment_markdown,
                                       prompt_page.name, env.NOTION_TOKEN, outcome)
                IN  /\ calls' = calls \o comment_result.requests
                    /\ IF comment_result.raised
                       THEN Raise(OpenAIError(comment_result.exc)) /\ UNCHANGED <<messages, tc>>
                       ELSE /\ messages' = Append(messages,
                                    ToolMessage(tool_call.id, comment_result.result))
                            /\ AfterToolCall
                            /\ UNCHANGED exc
    /\ UNCHANGED <<event, env, store, gp, page, prompt_page, changed_page,
                   response_message, final_response, openai_response, response, pureVars>>

\* lines 703-707: the final completion and the comment that carries its reply
FinalResponse ==
    /\ pc = "final_response"
    /\ \E reply \in FinalReplies, outcome \in {"ok", "http", "transport"} :
       LET asked == CompletionRequest(Model(event.queryStringParameters), messages, FALSE)
           written == notion_comment(event.body.id, reply.message.content,
                                     prompt_page.name, env.NOTION_TOKEN, outcome)
       IN  IF reply.error
           THEN /\ calls' = Append(calls, asked)
                /\ Raise(OpenAIError(<<"APIError">>))
                /\ UNCHANGED <<final_response, openai_response>>
           ELSE /\ final_response' = reply.message
                /\ calls' = Append(calls, asked) \o written.requests
                /\ IF written.raised
                   THEN Raise(OpenAIError(written.exc)) /\ UNCHANGED openai_response
                   ELSE /\ openai_response' = ToolPathReturn(reply.message)
                        /\ pc' = "result"
                        /\ UNCHANGED exc
    /\ UNCHANGED <<event, env, store, gp, page, prompt_page, changed_page, messages,
                   response_message, tc, response, pureVars>>

(***************************************************************************)
(* The store's data.                                                       *)
(***************************************************************************)
BlockIds == <<"b1", "b2", "b3", "b4", "b5", "b6", "b7", "b8", "b9", "b10", "b11", "b12">>
CommentIds == <<"c1", "c2", "c3", "c4", "c5", "c6", "c7", "c8", "c9", "c10", "c11", "c12">>
ReplyIds == <<"r1", "r2", "r3", "r4", "r5", "r6", "r7", "r8", "r9", "r10", "r11", "r12">>

Block(id, type, text) ==
    [id |-> id, type |-> type, has_field |-> TRUE, rich_text |-> <<PlainSpan(text)>>,
     language |-> "py"]

ListPage(results, has_more, next_cursor) ==
    [error |-> "none", code |-> 200, results |-> results, has_more |-> has_more,
     next_cursor |-> next_cursor]

ErrorPage(code) ==
    [error |-> "http", code |-> code, results |-> <<>>, has_more |-> FALSE,
     next_cursor |-> NoCursor]

Comment(id, text, user_id) ==
    [id |-> id, rich_text |-> <<PlainSpan(text)>>, created_by |-> user_id,
     created_time |-> "2025"]

Users ==
    [u \in {"u1", "u2"} |->
        IF u = "u1"
        THEN [error |-> "none", name |-> "Ann", type |-> "person", email |-> "ann@x"]
        ELSE [error |-> "http", name |-> "", type |-> "", email |-> ""]]

Doc(error, title, pages) ==
    [error |-> error, properties |-> [has_title |-> title # <<>>, title |-> title],
     pages |-> pages]

NoPage == [page_id |-> "", name |-> <<>>, markdown |-> <<>>]
NoRender == [raised |-> FALSE, markdown |-> <<>>, user_cache |-> <<>>, requests |-> <<>>]
NoFetch == [block_id |-> "", raised |-> FALSE, comments |-> <<>>, requests |-> <<>>]

(***************************************************************************)
(* Spec: one request to lambda_handler.  The prompt document is P, the     *)
(* changed document D; either may fail to load.  Author u1 commented on    *)
(* both documents, twice on D; the author u2 of D's other comment cannot   *)
(* be looked up.                                                           *)
(***************************************************************************)
HandlerStore(prompt_error, changed_error) ==
    [docs |-> [id \in {"P", "D"} |->
                 IF id = "P"
                 THEN Doc(prompt_error, <<<<"Reviewer">>>>,
                          <<ListPage(<<Block("p1", <<"paragraph">>, <<"h", "i">>)>>,
                                     FALSE, NoCursor)>>)
                 ELSE Doc("none", <<>>,
                          IF changed_error = "none"
                          THEN <<ListPage(<<Block("d1", <<"paragraph">>, <<"a">>)>>,
                                          FALSE, NoCursor)>>
                          ELSE <<ErrorPage(500)>>)],
     comments |-> [b \in {"p1", "d1"} |->
                    IF b = "p1"
                    THEN <<ListPage(<<Comment("c0", <<"o", "k">>, "u1")>>, FALSE, NoCursor)>>
                    ELSE <<ListPage(<<Comment("c1", <<"o", "k">>, "u1"),
                                      Comment("c2", <<"n", "o">>, "u2"),
                                      Comment("c3", <<"o", "k">>, "u1")>>, FALSE, NoCursor)>>],
     users |-> Users]

Events ==
    [queryStringParameters : [client_token : {"", "s", "x"}, prompt_id : {"", "P"},
                              model : {""}],
     body : {[parses |-> FALSE, has_data |-> FALSE, id |-> "", request_id |-> ""],
             [parses |-> TRUE, has_data |-> FALSE, id |-> "", request_id |-> ""],
             [parses |-> TRUE, has_data |-> TRUE, id |-> "", request_id |-> "q1"],
             [parses |-> TRUE, has_data |-> TRUE, id |-> "D", request_id |-> "q1"]}]

Environments ==
    [client_token : {"", "s"}, NOTION_TOKEN : BOOLEAN, OPENAI_API_KEY : BOOLEAN]

InitLocals ==
    /\ exc = <<>>
    /\ calls = <<>>
    /\ page = NoPage
    /\ prompt_page = NoPage
    /\ changed_page = NoPage
    /\ messages = <<>>
    /\ response_message = NoMessage
    /\ tc = 0
    /\ final_response = NoMessage
    /\ openai_response = None
    /\ response = None

InitPure ==
    /\ blocks = <<>>
    /\ rendered = NoRender
    /\ parsed = <<>>
    /\ fetched = NoFetch
    /\ spans = <<>>
    /\ extracted = <<>>

Init ==
    /\ event \in Events
    /\ env \in Environments
    /\ store \in {HandlerStore(p, d) : p, d \in {"none", "http"}}
    /\ pc = "lambda_handler"
    /\ gp = NewFrame("", "")
    /\ InitLocals
    /\ InitPure

Next ==
    \/ LambdaStart
    \/ GetPageMeta
    \/ GetPageChildren
    \/ GetPageRender
    \/ LambdaReadBody
    \/ QueryOpenai
    \/ ToolCall
    \/ FinalResponse
    \/ LambdaResult
    \/ LambdaCatch

Spec == Init /\ [][Next]_vars

(***************************************************************************)
(* SpecPage: one call of get_page on document D, whose children the store  *)
(* serves in up to MaxPages pages.  Page i of the store holds no block,    *)
(* one or two, or is an HTTP error; has_more may be false before the last  *)
(* page and is false on the last.                                          *)
(***************************************************************************)
MaxPages == 3

PageChoices == [kind : {"empty", "one", "two"}, has_more : BOOLEAN]
                   \cup {[kind |-> "error", has_more |-> FALSE]}

PageResults(i, kind) ==
    IF kind = "empty" THEN <<>>
    ELSE IF kind = "one" THEN <<Block(BlockIds[2 * i - 1], <<"paragraph">>, <<"a">>)>>
    ELSE <<Block(BlockIds[2 * i - 1], <<"paragraph">>, <<"a">>),
           Block(BlockIds[2 * i], <<"heading", "1">>, <<"b">>)>>

ChildPage(i, choice) ==
    IF choice.kind = "error" THEN ErrorPage(500)
    ELSE ListPage(PageResults(i, choice.kind), choice.has_more,
                  IF choice.has_more THEN i + 1 ELSE NoCursor)

PageScripts ==
    UNION {{[i \in 1..n |-> ChildPage(i, choices[i])] :
              choices \in {c \in [1..n -> PageChoices] : ~c[n].has_more}} :
           n \in 1..MaxPages}

\* every odd block carries one comment, every even block two; the second
\* author cannot be looked up
PageComments ==
    [b \in {BlockIds[j] : j \in 1..Len(BlockIds)} |->
        LET j == CHOOSE k \in 1..Len(BlockIds) : BlockIds[k] = b IN
        IF j % 2 = 1
        THEN <<ListPage(<<Comment(CommentIds[j], <<"o", "k">>, "u1")>>, FALSE, NoCursor)>>
        ELSE <<ListPage(<<Comment(CommentIds[j], <<"o", "k">>, "u1"),
                          Comment(ReplyIds[j], <<"n", "o">>, "u2")>>, FALSE, NoCursor)>>]

PageStore(meta_error, pages) ==
    [docs |-> [id \in {"D"} |-> Doc(meta_error, <<<<"Doc">>>>, pages)],
     comments |-> PageComments,
     users |-> Users]

InitPage ==
    /\ event = [queryStringParameters |-> [client_token |-> "", prompt_id |-> "", model |-> ""],
                body |-> [parses |-> FALSE, has_data |-> FALSE, id |-> "", request_id |-> ""]]
    /\ env \in [client_token : {""}, NOTION_TOKEN : BOOLEAN, OPENAI_API_KEY : {TRUE}]
    /\ store \in {PageStore(m, p) : m \in {"none", "http"}, p \in PageScripts}
    /\ pc = "get_page"
    /\ gp = NewFrame("D", "done")
    /\ InitLocals
    /\ InitPure

NextPage ==
    \/ GetPageMeta
    \/ GetPageChildren
    \/ GetPageRender

SpecPage == InitPage /\ [][NextPage]_vars

(***************************************************************************)
(* The conversions on their own: notion_to_markdown applied to blocks,     *)
(* markdown_to_notion applied to its output, get_block_comments applied    *)
(* to one block.                                                           *)
(***************************************************************************)
Render ==
    /\ pc = "convert"
    /\ rendered' = notion_to_markdown(blocks, store, <<>>)
    /\ pc' = "rendered"
    /\ UNCHANGED <<event, env, store, exc, calls, gp, page, handlerVars, blocks,
                   parsed, fetched, spans, extracted>>

Parse ==
    /\ pc = "rendered"
    /\ ~rendered.raised
    /\ parsed' = markdown_to_notion(rendered.markdown)
    /\ pc' = "parsed"
    /\ UNCHANGED <<event, env, store, exc, calls, gp, page, handlerVars, blocks,
                   rendered, fetched, spans, extracted>>

ListComments ==
    /\ pc = "convert"
    /\ \E i \in 1..Len(blocks) :
          LET got == get_block_comments(blocks[i].id, store) IN
          fetched' = [block_id |-> blocks[i].id, raised |-> got.raised,
                      comments |-> got.comments, requests |-> got.requests]
    /\ pc' = "fetched"
    /\ UNCHANGED <<event, env, store, exc, calls, gp, page, handlerVars, blocks,
                   rendered, parsed, spans, extracted>>

NextConvert == Render \/ Parse \/ ListComments

MaxBlocks == 2

InitConvert ==
    /\ event = [queryStringParameters |-> [client_token |-> "", prompt_id |-> "", model |-> ""],
                body |-> [parses |-> FALSE, has_data |-> FALSE, id |-> "", request_id |-> ""]]
    /\ env = [client_token |-> "", NOTION_TOKEN |-> TRUE, OPENAI_API_KEY |-> TRUE]
    /\ pc = "convert"
    /\ gp = NewFrame("", "")
    /\ InitLocals
    /\ rendered = NoRender
    /\ parsed = <<>>
    /\ fetched = NoFetch
    /\ spans = <<>>
    /\ extracted = <<>>

\* What the store holds for the comments of block j under each plan.
CommentPlans == {"none", "one", "paged", "lost", "forbidden", "failing"}

CommentScript(plan, j) ==
    IF plan = "none" THEN <<ListPage(<<>>, FALSE, NoCursor)>>
    ELSE IF plan = "one"
    THEN <<ListPage(<<Comment(CommentIds[j], <<"o", "k">>, "u1")>>, FALSE, NoCursor)>>
    ELSE IF plan = "paged"
    THEN <<ListPage(<<Comment(CommentIds[j], <<"o", "k">>, "u1")>>, TRUE, 2),
           ListPage(<<Comment(ReplyIds[j], <<"n", "o">>, "u2")>>, FALSE, NoCursor)>>
    ELSE IF plan = "lost"
    THEN <<ListPage(<<Comment(CommentIds[j], <<"o", "k">>, "u1")>>, TRUE, 2),
           ErrorPage(404)>>
    ELSE IF plan = "forbidden" THEN <<ErrorPage(403)>>
    ELSE <<ErrorPage(500)>>

ConvertStore(plan) ==
    [docs |-> [id \in {"D"} |-> Doc("none", <<>>, <<ListPage(<<>>, FALSE, NoCursor)>>)],
     comments |-> [b \in {BlockIds[j] : j \in 1..Len(BlockIds)} |->
                     CommentScript(plan, CHOOSE j \in 1..Len(BlockIds) : BlockIds[j] = b)],
     users |-> Users]

(***************************************************************************)
(* SpecRender: blocks of supported and unsupported kinds, with text, with  *)
(* blank text, without their field, or with text that reads like the       *)
(* block_id line of the next block.                                        *)
(***************************************************************************)
RenderKinds ==
    {<<"paragraph">>, <<"heading", "2">>, <<"code">>, <<"image">>, <<"heading", "x">>}

RenderContents == {"text", "blank", "absent", "marker"}

RenderBlockAt(j, choice) ==
    [id |-> BlockIds[j], type |-> choice.kind, has_field |-> choice.content # "absent",
     rich_text |-> IF choice.content = "blank" THEN <<PlainSpan(<<" ">>)>>
                   ELSE IF choice.content = "marker"
                   THEN <<PlainSpan(BlockIdLine(BlockIds[j + 1]))>>
                   ELSE <<PlainSpan(<<"a">>)>>,
     language |-> "py"]

InitRender ==
    /\ InitConvert
    /\ \E n \in 0..MaxBlocks :
          \E choices \in [1..n -> [kind : RenderKinds, content : RenderContents]] :
              blocks = [j \in 1..n |-> RenderBlockAt(j, choices[j])]
    /\ store \in {ConvertStore(plan) : plan \in CommentPlans}

SpecRender == InitRender /\ [][NextConvert]_vars

(***************************************************************************)
(* SpecRoundTrip: blocks of the supported kinds with non-empty unstyled    *)
(* text and no comments.                                                   *)
(***************************************************************************)
SupportedKinds ==
    {<<"paragraph">>, <<"heading", "1">>, <<"heading", "2">>,
     <<"bulleted", "list", "item">>, <<"numbered", "list", "item">>, <<"code">>,
     <<"quote">>}

RoundTripTexts ==
    {<<"a">>, <<"a", " ", "b">>, <<"#", "a">>, <<">", " ", "a">>, <<" ", "a">>,
     <<"a", "\n", "b">>, Fence}

InitRoundTrip ==
    /\ InitConvert
    /\ \E n \in 0..MaxBlocks :
          \E choices \in [1..n -> [kind : SupportedKinds, text : RoundTripTexts]] :
              blocks = [j \in 1..n |-> Block(BlockIds[j], choices[j].kind, choices[j].text)]
    /\ store = ConvertStore("none")

SpecRoundTrip == InitRoundTrip /\ [][NextConvert]_vars

(***************************************************************************)
(* SpecSpans: _extract_rich_text applied to up to MaxSpans spans, each     *)
(* with any subset of the four style flags and no link, an empty link or   *)
(* a link.                                                                 *)
(***************************************************************************)
MaxSpans == 2

SpanChoices ==
    [bold : BOOLEAN, italic : BOOLEAN, strikethrough : BOOLEAN, code : BOOLEAN,
     href : {None, <<>>, <<"url">>}]

SpanAt(j, choice) ==
    [plain_text |-> <<"c", IntStr(j)>>, bold |-> choice.bold, italic |-> choice.italic,
     strikethrough |-> choice.strikethrough, code |-> choice.code, href |-> choice.href]

Extract ==
    /\ pc = "extract"
    /\ extracted' = _extract_rich_text(spans)
    /\ pc' = "extracted"
    /\ UNCHANGED <<event, env, store, exc, calls, gp, page, handlerVars, blocks,
                   rendered, parsed, fetched, spans>>

InitSpans ==
    /\ event = [queryStringParameters |-> [client_token |-> "", prompt_id |-> "", model |-> ""],
                body |-> [parses |-> FALSE, has_data |-> FALSE, id |-> "", request_id |-> ""]]
    /\ env = [client_token |-> "", NOTION_TOKEN |-> TRUE, OPENAI_API_KEY |-> TRUE]
    /\ store = ConvertStore("none")
    /\ pc = "extract"
    /\ gp = NewFrame("", "")
    /\ InitLocals
    /\ blocks = <<>>
    /\ rendered = NoRender
    /\ parsed = <<>>
    /\ fetched = NoFetch
    /\ extracted = <<>>
    /\ \E n \in 0..MaxSpans :
          \E choices \in [1..n -> SpanChoices] :
              spans = [j \in 1..n |-> SpanAt(j, choices[j])]

SpecSpans == InitSpans /\ [][Extract]_vars

(***************************************************************************)
(* Properties of one request (Spec).                                       *)
(***************************************************************************)
Completions == SelectSeq(calls, LAMBDA r : r.op = "chat_completion")
CommentWrites == SelectSeq(calls, LAMBDA r : r.op = "create_comment")
SecondCompletions == SelectSeq(calls, LAMBDA r : r.op = "chat_completion" /\ ~r.tools)
Requested == response_message.tool_calls
Succeeded == pc = "done" /\ DOMAIN response = {"openai_response", "request_id"}

\* C1: when the initial reply requests tool invocations, the value returned is
\* the text of the final completion, that text is written as a comment on the
\* changed document under the prompt document's title, and the success
\* envelope carries it.
C1_FinalTextReturned ==
    (Succeeded /\ Requested # <<>>) =>
        /\ response.openai_response = final_response.content
        /\ calls[Len(calls)].op = "create_comment"
        /\ calls[Len(calls)].target = event.body.id
        /\ calls[Len(calls)].rich_text = final_response.content
        /\ calls[Len(calls)].display_name = prompt_page.name

\* C2: when the initial reply requests no tool invocation, its text is the
\* value returned, one completion request is issued and no comment is ever
\* written.
C2_DirectReply ==
    (response_message # NoMessage /\ Requested = <<>>) =>
        /\ Len(Completions) = 1
        /\ Len(CommentWrites) = 0
        /\ pc \in {"result", "done"}
        /\ openai_response = response_message.content
        /\ pc = "done" => Succeeded /\ response.openai_response = response_message.content

C2_Witness ==
    /\ pc = "done"
    /\ response_message # NoMessage
    /\ Requested = <<>>
    /\ response.openai_response = <<"O", "K">>

\* C3: lambda_handler always ends by returning an envelope, {openai_response,
\* request_id} or {error, event} with the trigger payload, and never raises:
\* until it has returned it can take a step (the rendering step of get_page
\* has no condition but its position), and no exception is left in flight.
C3_AlwaysEnvelope ==
    IF pc = "done"
    THEN \/ DOMAIN response = {"openai_response", "request_id"}
         \/ DOMAIN response = {"error", "event"} /\ response.event = event
    ELSE \/ pc = "get_page_render"
         \/ ENABLED (LambdaStart \/ GetPageMeta \/ GetPageChildren \/ LambdaReadBody
                         \/ QueryOpenai \/ ToolCall \/ FinalResponse \/ LambdaResult
                         \/ LambdaCatch)

C3_Witness ==
    /\ pc = "done"
    /\ DOMAIN response = {"error", "event"}
    /\ response.error = OpenAIError(<<"JSONDecodeError">>)
    /\ response.event = event

ToolMessagesFor(sent, id) ==
    {k \in 1..Len(sent) : sent[k].role = "tool" /\ sent[k].tool_call_id = id}

\* C4: the transcript of the second completion request holds, for every
\* requested invocation whatever its name, exactly one tool message with its
\* id, after the assistant message and in the order of the invocations.
C4_EveryInvocationAnswered ==
    \A n \in 1..Len(SecondCompletions) :
        LET sent == SecondCompletions[n].messages IN
        /\ \A i \in 1..Len(Requested) :
              /\ Cardinality(ToolMessagesFor(sent, Requested[i].id)) = 1
              /\ \A k \in ToolMessagesFor(sent, Requested[i].id) :
                    \E a \in 1..(k - 1) : sent[a].role = "assistant"
        /\ \A i, j \in 1..Len(Requested) :
              i < j => \A k \in ToolMessagesFor(sent, Requested[i].id),
                          m \in ToolMessagesFor(sent, Requested[j].id) : k < m

\* C5: a failing comment write never aborts the exchange: with well-formed
\* arguments, whatever the body, every notion_comment invocation gets a tool
\* result and the second completion request is issued.
C5_FailedWriteNeverAborts ==
    (/\ pc = "done"
     /\ Requested # <<>>
     /\ \A i \in 1..Len(Requested) : Requested[i].arguments.valid_json) =>
        /\ Len(SecondCompletions) = 1
        /\ \A i \in 1..Len(Requested) :
              IsNotionComment(Requested[i]) =>
                  ToolMessagesFor(SecondCompletions[1].messages, Requested[i].id) # {}

TokenPassed ==
    env.client_token # "" =>
        event.queryStringParameters.client_token = env.client_token
BodyHasId == event.body.parses /\ event.body.has_data /\ event.body.id # ""

\* C6 as stated: no remote request is issued unless the token check passed,
\* prompt_id is present and the body carries the changed-document id.
C6_ValidationFirst ==
    calls # <<>> =>
        TokenPassed /\ event.queryStringParameters.prompt_id # "" /\ BodyHasId

\* C6 as amended: no remote request is issued unless the token check passed
\* and prompt_id is present; the body is examined after the prompt document
\* has been fetched, and without a changed-document id in it only the prompt
\* document's fetch has been issued: one page fetch, no completion request and
\* no comment write.
C6_ValidationBeforeChangedFetch ==
    /\ calls # <<>> => TokenPassed /\ event.queryStringParameters.prompt_id # ""
    /\ ~BodyHasId =>
          /\ Len(Completions) = 0
          /\ Len(CommentWrites) = 0
          /\ Len(SelectSeq(calls, LAMBDA r : r.op = "get_page")) <= 1
          /\ \A n \in 1..Len(calls) :
                calls[n].op \in {"get_page", "list_children"} =>
                    calls[n].target = event.queryStringParameters.prompt_id

C6_Witness ==
    /\ pc = "done"
    /\ DOMAIN response = {"error", "event"}
    /\ response.error = <<"Missing page ID in request data">>
    /\ \E n \in 1..Len(calls) : calls[n].op = "list_children"

(***************************************************************************)
(* Properties of get_page (SpecPage).                                      *)
(***************************************************************************)
ChildPages == store.docs[gp.page_id].pages
ChildRequests == SelectSeq(calls, LAMBDA r : r.op = "list_children")

\* the first page that ends the pagination: has_more is false, or it fails
FirstStop(pages) ==
    CHOOSE i \in 1..Len(pages) :
        /\ pages[i].error # "none" \/ ~pages[i].has_more
        /\ \A j \in 1..(i - 1) : pages[j].error = "none" /\ pages[j].has_more

RECURSIVE ResultsUpTo(_, _)
ResultsUpTo(pages, n) ==
    IF n = 0 THEN <<>> ELSE ResultsUpTo(pages, n - 1) \o pages[n].results

\* C8: the loop issues one list-children request per page, each with the
\* previous page's next_cursor, never asks past the first page with
\* has_more = false, renders the concatenation of the pages' results in
\* order, ends for every page sequence, and renders no block to empty text.
C8_Pagination ==
    /\ \A k \in 1..Len(ChildRequests) :
          /\ ChildRequests[k].target = gp.page_id
          /\ ChildRequests[k].cursor =
                IF k = 1 THEN NoCursor ELSE ChildPages[k - 1].next_cursor
    /\ Len(ChildRequests) <= FirstStop(ChildPages)
    /\ pc = "get_page_loop" => gp.blocks = ResultsUpTo(ChildPages, Len(ChildRequests))
    /\ pc \in {"get_page_render", "done"} =>
          /\ Len(ChildRequests) = FirstStop(ChildPages)
          /\ gp.blocks = ResultsUpTo(ChildPages, FirstStop(ChildPages))
    /\ pc = "done" =>
          /\ page.markdown =
                notion_to_markdown(ResultsUpTo(ChildPages, FirstStop(ChildPages)),
                                   store, <<>>).markdown
          /\ gp.blocks = <<>> => page.markdown = <<>>
    /\ pc = "raise" =>
          \/ ~env.NOTION_TOKEN
          \/ store.docs[gp.page_id].error # "none"
          \/ ChildPages[FirstStop(ChildPages)].error # "none"
    /\ pc = "get_page_loop" => ENABLED GetPageChildren

C8_Witness ==
    /\ pc = "done"
    /\ Len(ChildRequests) = 3
    /\ ChildRequests[3].cursor = 3
    /\ Len(gp.blocks) = 5
    /\ page.markdown # <<>>

C8_WitnessEmpty ==
    /\ pc = "done"
    /\ Len(ChildRequests) = 2
    /\ gp.blocks = <<>>
    /\ page.markdown = <<>>

(***************************************************************************)
(* Properties of the conversions (SpecRender, SpecRoundTrip).              *)
(***************************************************************************)
RenderedLines == Split(rendered.markdown, "\n")
Count(lines, l) == Cardinality({n \in 1..Len(lines) : lines[n] = l})
TextOf(block) == block.rich_text[1].plain_text

\* the comments the store holds for a block: on all its pages, and on the
\* pages up to the one that ends the pagination
StoredComments(block_id) ==
    ResultsUpTo(store.comments[block_id], Len(store.comments[block_id]))
ListedComments(block_id) ==
    ResultsUpTo(store.comments[block_id], FirstStop(store.comments[block_id]))

\* C7 as stated: the text holds each block id and each comment id exactly
\* once, as a block_id line and a comment block id line, blank and
\* unsupported blocks included.
C7_EveryIdOnce ==
    (pc = "rendered" /\ ~rendered.raised) =>
        \A k \in 1..Len(blocks) :
            /\ Count(RenderedLines, BlockIdLine(blocks[k].id)) = 1
            /\ \A c \in 1..Len(StoredComments(blocks[k].id)) :
                  Count(RenderedLines,
                        CommentIdLine(StoredComments(blocks[k].id)[c].id)) = 1

ShouldRender(block) ==
    /\ block.type \in SupportedKinds
    /\ block.has_field
    /\ Strip(TextOf(block)) # <<>>

NoMarkerText ==
    \A k \in 1..Len(blocks) :
        ~StartsWith(TextOf(blocks[k]), <<"block_id:">>)
            /\ ~StartsWith(TextOf(blocks[k]), <<"comment block id:">>)

\* C7 as amended: when no text itself reads like an id line, the text holds
\* exactly one block_id line for each block of a supported kind with
\* non-blank text and exactly one comment block id line for each comment
\* listed for such a block; a block of an unsupported kind, without its
\* field or with blank text contributes no line: neither its id nor its
\* comments' ids appear.
C7_RenderedIdsOnce ==
    (pc = "rendered" /\ ~rendered.raised /\ NoMarkerText) =>
        \A k \in 1..Len(blocks) :
            /\ Count(RenderedLines, BlockIdLine(blocks[k].id)) =
                  IF ShouldRender(blocks[k]) THEN 1 ELSE 0
            /\ \A c \in 1..Len(StoredComments(blocks[k].id)) :
                  Count(RenderedLines,
                        CommentIdLine(StoredComments(blocks[k].id)[c].id)) =
                      IF ShouldRender(blocks[k])
                            /\ c <= Len(ListedComments(blocks[k].id))
                      THEN 1 ELSE 0

C7_Witness ==
    /\ pc = "rendered"
    /\ ~rendered.raised
    /\ NoMarkerText
    /\ Len(blocks) = 2
    /\ blocks[1].type = <<"paragraph">> /\ ~ShouldRender(blocks[1])
    /\ blocks[2].type = <<"code">> /\ ShouldRender(blocks[2])
    /\ Len(StoredComments(blocks[2].id)) = 2
    /\ Count(RenderedLines, BlockIdLine(blocks[1].id)) = 0
    /\ Count(RenderedLines, CommentIdLine(StoredComments(blocks[2].id)[2].id)) = 1

Survives(block) ==
    LET text == TextOf(block) IN
    /\ text # <<>>
    /\ Strip(text) = text
    /\ \A n \in 1..Len(text) : text[n] # "\n"
    /\ block.type = <<"paragraph">> =>
          ~(StartsWith(text, <<"#">>) \/ StartsWith(text, Fence)
              \/ StartsWith(text, <<"-", " ">>) \/ StartsWith(text, <<">", " ">>)
              \/ NumberedPrefix(text))
    /\ IsHeading(block.type) => ~StartsWith(text, <<"#">>)
    /\ block.type = <<"code">> => ~StartsWith(text, Fence)

C10_EmptyOnForbidden ==
    pc = "fetched" =>
        LET script == store.comments[fetched.block_id]
            last == script[FirstStop(script)]
        IN  /\ (last.error = "http" /\ last.code \in {403, 404}) =>
                  ~fetched.raised /\ fetched.comments = <<>>
            /\ (last.error = "http" /\ last.code \notin {403, 404}) => fetched.raised

\* the block_id lines of the text, in the order they appear
IdLines == SelectSeq(RenderedLines, LAMBDA l : StartsWith(l, <<"block_id:">>))

RECURSIVE IdLinesOf(_)
IdLinesOf(bs) ==
    IF bs = <<>> THEN <<>>
    ELSE (IF ShouldRender(Head(bs)) THEN <<BlockIdLine(Head(bs).id)>> ELSE <<>>)
            \o IdLinesOf(Tail(bs))

\* no comments request of the store fails with anything but 403 or 404
CommentsListable ==
    \A k \in 1..Len(blocks) :
        \A p \in 1..Len(store.comments[blocks[k].id]) :
            LET answer == store.comments[blocks[k].id][p] IN
            answer.error = "none" \/ (answer.error = "http" /\ answer.code \in {403, 404})

\* C11: notion_to_markdown does not raise on any block, whatever its kind
\* (a heading kind with a non-numeric suffix included) and whether or not it
\* carries its field; the blocks it renders are those of a supported kind
\* with text, in input order.
C11_UnsupportedOmitted ==
    (pc = "rendered" /\ NoMarkerText /\ CommentsListable) =>
        /\ ~rendered.raised
        /\ IdLines = IdLinesOf(blocks)

(***************************************************************************)
(* Properties of the tool path (Spec).                                     *)
(***************************************************************************)
\* the comment creation requests issued before the second completion
\* request, or all of them while there is none
FirstSecond ==
    IF \E n \in 1..Len(calls) : calls[n].op = "chat_completion" /\ ~calls[n].tools
    THEN CHOOSE n \in 1..Len(calls) :
            /\ calls[n].op = "chat_completion" /\ ~calls[n].tools
            /\ \A m \in 1..(n - 1) : ~(calls[m].op = "chat_completion" /\ ~calls[m].tools)
    ELSE Len(calls) + 1

ToolWrites ==
    SelectSeq(SubSeq(calls, 1, FirstSecond - 1), LAMBDA r : r.op = "create_comment")

ParentAndBody(requests) ==
    [n \in 1..Len(requests) |->
        [parent |-> requests[n].target, body |-> requests[n].rich_text]]

\* what the notion_comment invocations among the first n ask to be written
RECURSIVE Asked(_, _)
Asked(tool_calls, n) ==
    IF n = 0 THEN <<>>
    ELSE Asked(tool_calls, n - 1)
            \o (IF tool_calls[n].name = "notion_comment"
                THEN <<[parent |-> tool_calls[n].arguments.block_id,
                        body |-> tool_calls[n].arguments.comment_markdown]>>
                ELSE <<>>)

InToolPath == response_message.tool_calls # <<>>

\* C13 as stated: in the tool path every requested notion_comment invocation
\* has, when the request ends, exactly one comment creation request with its
\* block id as parent and its markdown as body, in invocation order and
\* before the second completion request.
C13_EveryInvocationWritten ==
    (pc = "done" /\ InToolPath) =>
        ParentAndBody(ToolWrites) = Asked(Requested, Len(Requested))

\* C13 as amended: the invocations are handled in order; each notion_comment
\* invocation handled so far has exactly one comment creation request with
\* its block id as parent and its markdown as body, in invocation order; an
\* invocation whose arguments are malformed or whose markdown is blank or
\* absent is not handled: it ends the loop with no request for it or for any
\* later invocation and no second completion request.  So when the second
\* completion request has been issued every invocation was handled, and the
\* requests before it are one per notion_comment invocation.
C13_HandledInvocationsWritten ==
    InToolPath =>
        /\ tc \in 1..(Len(Requested) + 1)
        /\ ParentAndBody(ToolWrites) = Asked(Requested, tc - 1)
        /\ \A i \in 1..(tc - 1) :
              Requested[i].name = "notion_comment" =>
                  /\ Requested[i].arguments.valid_json
                  /\ Requested[i].arguments.comment_markdown # None
                  /\ Strip(Requested[i].arguments.comment_markdown) # <<>>
        /\ SecondCompletions # <<>> => tc = Len(Requested) + 1

C13_Witness ==
    /\ Succeeded
    /\ Len(Requested) = 2
    /\ Requested[1].name = "notion_comment" /\ Requested[1].arguments.block_id = "d2"
    /\ Requested[2].name = "notion_comment" /\ Requested[2].arguments.block_id = "d1"
    /\ ParentAndBody(ToolWrites) =
          <<[parent |-> "d2", body |-> <<"o", "k">>],
            [parent |-> "d1", body |-> <<"n", "i", "c", "e">>]>>
    /\ Len(SecondCompletions) = 1
    /\ Len(CommentWrites) = 3

(***************************************************************************)
(* Properties of the author lookups (Spec).                                *)
(***************************************************************************)
\* a get_page call's requests run from its page request up to the next
\* page request or completion request
FetchEnd(i) ==
    IF \E j \in (i + 1)..Len(calls) : calls[j].op \in {"get_page", "chat_completion"}
    THEN CHOOSE j \in (i + 1)..Len(calls) :
            /\ calls[j].op \in {"get_page", "chat_completion"}
            /\ \A m \in (i + 1)..(j - 1) : calls[m].op \notin {"get_page", "chat_completion"}
    ELSE Len(calls) + 1

Lookups(i, u) ==
    Cardinality({n \in i..(FetchEnd(i) - 1) :
                    calls[n].op = "get_user" /\ calls[n].target = u})

Listed(i) == \E n \in i..(FetchEnd(i) - 1) : calls[n].op = "list_comments"

\* the authors of the comments on a document's blocks
Authors(doc) ==
    {c.created_by : c \in UNION {
        UNION {{store.comments[b.id][q].results[m] :
                    m \in 1..Len(store.comments[b.id][q].results)} :
               q \in 1..Len(store.comments[b.id])} :
        b \in UNION {{doc.pages[q].results[m] : m \in 1..Len(doc.pages[q].results)} :
                     q \in 1..Len(doc.pages)}}}

Sentinel(user_id) == [name |-> "Unknown User", email |-> "", id |-> user_id]

\* C14: within one get_page call every author is looked up at most once, and
\* exactly once when the call renders a comment of theirs, however many they
\* wrote; every get_page call starts with an empty cache, so an author of
\* comments on both documents is looked up once in each fetch; a lookup that
\* fails leaves the sentinel in the cache and in the text, and the fetch
\* returns its page.
C14_OneLookupPerAuthor ==
    /\ pc = "get_page" => gp.user_cache = <<>>
    /\ \A i \in 1..Len(calls) :
          calls[i].op = "get_page" =>
              \A u \in DOMAIN store.users :
                  /\ Lookups(i, u) <= 1
                  /\ Listed(i) =>
                        (Lookups(i, u) = 1 <=> u \in Authors(store.docs[calls[i].target]))
    /\ (\E n \in 1..Len(calls) : calls[n].op = "get_user" /\ calls[n].target = "u2") =>
          /\ page.page_id = "D"
          /\ gp.user_cache["u2"] = Sentinel("u2")
          /\ \E l \in 1..Len(Split(page.markdown, "\n")) :
                Split(page.markdown, "\n")[l] = CommentBy(Sentinel("u2"), "u2", "2025")

C14_Witness ==
    /\ Succeeded
    /\ Cardinality({n \in 1..Len(calls) :
                       calls[n].op = "get_user" /\ calls[n].target = "u1"}) = 2
    /\ Cardinality({n \in 1..Len(calls) :
                       calls[n].op = "get_user" /\ calls[n].target = "u2"}) = 1
    /\ Cardinality({n \in 1..Len(calls) : calls[n].op = "get_page"}) = 2
    /\ Len(StoredComments("d1")) = 3
    /\ DOMAIN gp.user_cache = {"u1", "u2"}

(***************************************************************************)
(* Properties of _extract_rich_text (SpecSpans).                           *)
(***************************************************************************)
HasLink(span) == span.href # None /\ span.href # <<>>

AllStyles(span) == span.bold /\ span.italic /\ span.strikethrough /\ span.code

\* C12 as stated: bold is the outermost inline wrapper, and a span with all
\* four flags and a link renders as [~~***`content`***~~](url).
C12_BoldOutermost ==
    (pc = "extracted" /\ Len(spans) = 1) =>
        /\ (AllStyles(spans[1]) /\ HasLink(spans[1])) =>
              extracted = <<"[", "~", "~", "*", "*", "*", Backtick>>
                            \o spans[1].plain_text
                            \o <<Backtick, "*", "*", "*", "~", "~", "]", "(">>
                            \o spans[1].href \o <<")">>
        /\ (spans[1].bold /\ ~HasLink(spans[1])) => StartsWith(extracted, <<"*", "*">>)

\* the opening and closing markers of a span, outermost first and last
Opening(span) ==
    (IF HasLink(span) THEN <<"[">> ELSE <<>>)
        \o (IF span.code THEN <<Backtick>> ELSE <<>>)
        \o (IF span.strikethrough THEN <<"~", "~">> ELSE <<>>)
        \o (IF span.italic THEN <<"*">> ELSE <<>>)
        \o (IF span.bold THEN <<"*", "*">> ELSE <<>>)

Closing(span) ==
    (IF span.bold THEN <<"*", "*">> ELSE <<>>)
        \o (IF span.italic THEN <<"*">> ELSE <<>>)
        \o (IF span.strikethrough THEN <<"~", "~">> ELSE <<>>)
        \o (IF span.code THEN <<Backtick>> ELSE <<>>)
        \o (IF HasLink(span) THEN <<"]", "(">> \o span.href \o <<")">> ELSE <<>>)

RECURSIVE Wrapped(_)
Wrapped(rich_text) ==
    IF rich_text = <<>> THEN <<>>
    ELSE Opening(Head(rich_text)) \o Head(rich_text).plain_text
            \o Closing(Head(rich_text)) \o Wrapped(Tail(rich_text))

\* C12 as amended: for every subset of the flags and an optional link the
\* wrappers of a span nest in one fixed order, from the outside in: link,
\* inline code, strikethrough, italic, bold (bold is the innermost, the link
\* encloses everything, an empty link is no link); the spans follow one
\* another with no separator.
C12_CodeOutermost ==
    pc = "extracted" => extracted = Wrapped(spans)

C12_Witness ==
    /\ pc = "extracted"
    /\ Len(spans) = 2
    /\ AllStyles(spans[1]) /\ HasLink(spans[1])
    /\ spans[2].bold /\ spans[2].code /\ ~spans[2].italic /\ ~spans[2].strikethrough
    /\ ~HasLink(spans[2])
    /\ extracted = <<"[", Backtick, "~", "~", "*", "*", "*", "c", "1", "*", "*", "*",
                     "~", "~", Backtick, "]", "(", "url", ")",
                     Backtick, "*", "*", "c", "2", "*", "*", Backtick>>
====
